---- MODULE Spec2Model ----
(***************************************************************************)
(* Model of the legal-document analysis backend.                           *)
(*   src/server.js          the account-integrated server ("accounts")     *)
(*   src/unnamed/part_000   the server without accounts     ("basic")      *)
(* Nine specifications share the module:                                   *)
(*   SpecScore   calculateRiskScore applied to bounded category counts     *)
(*   SpecNorm    the model-output handling of analyzeContractWithGemini    *)
(*   Spec        the POST /api/analyze-document handler                    *)
(*   SpecStream  the POST /api/ask-question-stream handler                 *)
(*   SpecStore   save/get/delete-user-data, one request after another      *)
(*   SpecRace    save/get/delete-user-data, requests running concurrently  *)
(*   SpecSweep   the finalizer, the hourly sweep, the shutdown cleanup      *)
(*   SpecSteps   ask-question-stream, one step of the loop at a time       *)
(*   SpecLive    both request handlers with their external calls returning *)
(***************************************************************************)
EXTENDS Integers, Sequences, FiniteSets, TLC

VARIABLES
  \* ---- calculateRiskScore harness
  scPc,          \* "input" | "done"
  scIn,          \* <<greenPoints, yellowPoints, redPoints>>
  scOut,         \* the value calculateRiskScore returned
  \* ---- process-wide state
  variant,       \* "accounts" (src/server.js) | "basic" (src/unnamed/part_000)
  apiKey,        \* process.env.GEMINI_API_KEY is set
  tempDir,       \* names of the files in the temp directory
  store,         \* rows of the user_data table
  \* ---- analyzeContractWithGemini's response handling, as a function
  nzPc,          \* "input" | "done"
  nzIn,          \* [variant, out, parties, text]
  nzOut,         \* what the function returned or threw
  \* ---- POST /api/analyze-document, one request in flight
  pc,            \* "idle" | "auth" | "extract" | "provider" | "returned";
                 \* in the finally block: "finally" | "unlinking"
  req,           \* the request being handled
  nReq,          \* requests received so far
  upload,        \* name multer gave the uploaded file, or NoFile
  filePath,      \* the handler's local filePath, or NoFile
  documentText,  \* the handler's local documentText
  userData,      \* rows returned by the authentication lookup
  parsedParties, \* the handler's local parsedParties
  analysisSource,\* the handler's local analysisSource: "" | "file" | "text"
  responses,     \* responses sent for the request, in order
  providerCalls, \* model.generateContent calls made for the request
  decoded,       \* what the format decoder came back with
  provided,      \* what the provider call came back with
  \* ---- POST /api/ask-question-stream, one request in flight
  spc,           \* "idle" | "open" | "iter" | "returned"
  sreq,          \* the request being handled
  sheaders,      \* the event-stream headers were set
  produced,      \* increments the provider stream has yielded, in order
  serror,        \* the error the provider raised, "" while it has raised none
  fullAnswer,    \* the handler's accumulator
  events,        \* events written to the channel, in order
  ended,         \* res.end() was called
  jsonResp,      \* JSON responses sent for the request, in order
  streamCalls,   \* model.generateContentStream calls made for the request
  \* ---- save/get/delete-user-data
  clients,       \* per client: the request in flight, its handler's locals
  \* ---- the temp directory's cleaners
  aged,          \* files of the temp directory older than one hour
  sweeper,       \* the hourly sweep: its listing and its position in it
  shutdown,      \* cleanupTempFiles on SIGINT/SIGTERM: listing and position
  \* ---- ask-question-stream, the client's side and the provider's side
  socket,        \* the client's connection: open or not, events received
  source,        \* the provider stream: its increments and how it ends
  streamsLeft    \* ask-question-stream requests still to come

scoreVars   == <<scPc, scIn, scOut>>
procVars    == <<variant, apiKey, tempDir, store>>
normVars    == <<nzPc, nzIn, nzOut>>
analyzeVars == <<pc, req, nReq, upload, filePath, documentText, userData,
                 parsedParties, analysisSource, responses, providerCalls,
                 decoded, provided>>
streamVars  == <<spc, sreq, sheaders, produced, serror, fullAnswer, events,
                 ended, jsonResp, streamCalls>>
storeVars   == <<clients>>
sweepVars   == <<aged, sweeper, shutdown>>
wireVars    == <<socket, source, streamsLeft>>
vars        == <<scoreVars, procVars, normVars, analyzeVars, streamVars,
                 storeVars, sweepVars, wireVars>>

-----------------------------------------------------------------------------
(* Bounds of the model *)

MaxPoints == 8        \* each category count ranges over 0..MaxPoints
MaxRequests == 2      \* analyze-document requests handled one after another
MaxChunks == 3        \* increments in one provider stream
MaxCalls == 2         \* user-data requests one client makes one after another
MaxClients == 2       \* clients whose user-data requests run concurrently
MaxFiles == 3         \* files in the temp directory
MaxStreams == 2       \* ask-question-stream requests one after another

-----------------------------------------------------------------------------
(* IEEE-754 double arithmetic, as far as calculateRiskScore uses it.       *)
(* A positive double is [hi, mid, lo, e]: its 53-bit significand is         *)
(* m = hi * 2^36 + mid * 2^18 + lo with 2^16 <= hi < 2^17 and               *)
(* mid, lo < 2^18, and its value is m * 2^e.                                *)

LimbBits == 18
TopBits  == 17                       \* 17 + 18 + 18 = 53 significand bits

RECURSIVE Pow2(_)
Pow2(n) == IF n = 0 THEN 1 ELSE 2 * Pow2(n - 1)

Limb == Pow2(LimbBits)
Top  == Pow2(TopBits)

\* number of bits of n >= 1
RECURSIVE BitLen(_)
BitLen(n) == IF n < 2 THEN 1 ELSE 1 + BitLen(n \div 2)

\* significand + 1, renormalised when it reaches 2^53
IncSig(x) ==
  IF x.lo + 1 < Limb THEN [x EXCEPT !.lo = @ + 1]
  ELSE IF x.mid + 1 < Limb THEN [x EXCEPT !.lo = 0, !.mid = @ + 1]
  ELSE IF x.hi + 1 < Top THEN [x EXCEPT !.lo = 0, !.mid = 0, !.hi = @ + 1]
  ELSE [hi |-> Top \div 2, mid |-> 0, lo |-> 0, e |-> x.e + 1]

\* round-to-nearest, ties-to-even: x is the truncated result, up says the
\* discarded part is above half a unit in the last place, tie that it is half
RoundEven(x, up, tie) ==
  IF up \/ (tie /\ x.lo % 2 = 1) THEN IncSig(x) ELSE x

\* smallest s with n * 2^s >= d   (n >= 1)
RECURSIVE ShiftUp(_, _)
ShiftUp(n, d) == IF n >= d THEN 0 ELSE 1 + ShiftUp(2 * n, d)

\* the double nearest to n/d, for integers 1 <= n <= d < 2^12: long division,
\* one limb at a time
FDiv(n, d) ==
  LET s   == ShiftUp(n, d)
      n1  == n * Pow2(s)                   \* d <= n1 < 2 * d
      hi  == (n1 * Pow2(TopBits - 1)) \div d
      r1  == (n1 * Pow2(TopBits - 1)) % d
      mid == (r1 * Limb) \div d
      r2  == (r1 * Limb) % d
      lo  == (r2 * Limb) \div d
      r3  == (r2 * Limb) % d
  IN  RoundEven([hi |-> hi, mid |-> mid, lo |-> lo,
                 e |-> 0 - s - (TopBits - 1) - 2 * LimbBits],
                2 * r3 > d, 2 * r3 = d)

\* the double nearest to x * k, for a double x > 0 and an integer 1 <= k < 2^12
FMul(x, k) ==
  LET pl   == x.lo * k
      pm   == (x.mid * k) + (pl \div Limb)
      ph   == (x.hi * k) + (pm \div Limb)      \* the product is ph : pm % Limb : pl % Limb
      drop == BitLen(ph) - TopBits         \* bits beyond the 53 kept
      cut  == Pow2(drop)
      keep == Limb \div cut
      low  == (pl % Limb) % cut            \* the discarded bits
  IN  RoundEven([hi  |-> ph \div cut,
                 mid |-> ((ph % cut) * keep) + ((pm % Limb) \div cut),
                 lo  |-> (((pm % Limb) % cut) * keep) + ((pl % Limb) \div cut),
                 e   |-> x.e + drop],
                drop > 0 /\ 2 * low > cut, drop > 0 /\ 2 * low = cut)

\* Math.round of a double 0 < x < 2^16: the nearest integer, ties upwards,
\* that is the integer part plus the first fraction bit
MathRound(x) ==
  LET frac == 0 - x.e - 2 * LimbBits     \* fraction bits within hi
  IN  IF frac > TopBits THEN 0
      ELSE (x.hi \div Pow2(frac)) + ((x.hi \div Pow2(frac - 1)) % 2)

-----------------------------------------------------------------------------
(* calculateRiskScore, for non-negative integer counts *)

calculateRiskScore(greenPoints, yellowPoints, redPoints) ==
  LET totalPoints == greenPoints + yellowPoints + redPoints
      \* numerator = greenPoints + 0.5 * yellowPoints is exact: twice it is
      twiceNumerator == 2 * greenPoints + yellowPoints
  IN  IF totalPoints = 0 THEN 50
      ELSE IF twiceNumerator = 0 THEN 0
      ELSE LET ratio == FDiv(twiceNumerator, 2 * totalPoints)
           IN  MathRound(FMul(ratio, 100))

-----------------------------------------------------------------------------
(* JSON values, as far as the handlers look at them *)

\* a field that is missing, an array (with its items) or a non-array (a string)
JAbsent == [k |-> "absent", items |-> <<>>]
JStr    == [k |-> "string", items |-> <<>>]
JArr(s) == [k |-> "array", items |-> s]

IsArray(v) == v.k = "array"          \* Array.isArray(v)
Falsy(v)   == v.k = "absent"         \* !v : arrays and non-empty strings are truthy

NoNum == -1                          \* a numeric field that is missing

\* no riskAssessment
NoRisk ==
  [present |-> FALSE, riskScore |-> NoNum,
   greenPoints |-> NoNum, yellowPoints |-> NoNum, redPoints |-> NoNum,
   greenRisks |-> JAbsent, yellowRisks |-> JAbsent, redRisks |-> JAbsent,
   risks |-> JAbsent]

\* an object carrying none of the fields
EmptyBody ==
  [legalReferences |-> JAbsent, vagueTerms |-> JAbsent, keyTerms |-> JAbsent,
   redFlags |-> JAbsent, suggestedQuestions |-> JAbsent, riskAssessment |-> NoRisk]

ArrayFields ==
  {"legalReferences", "vagueTerms", "keyTerms", "redFlags", "suggestedQuestions"}

\* what a handler hands to res.json as analysis
NoAnalysis ==
  [kind |-> "none", body |-> EmptyBody, error |-> "", parties |-> "none"]

FallbackQuestions ==
  <<"Obligations", "Termination", "Payment", "General", "General">>

AnalysisError == "Analysis Error"

-----------------------------------------------------------------------------
(* The text the provider returns: a body that is a JSON object or is not,   *)
(* bare or wrapped in ```json fences                                        *)

\* analysisText.replace(/```json\n?/g, '').replace(/```\n?/g, '').trim()
cleanedText(analysisText) == [analysisText EXCEPT !.fenced = FALSE]

\* JSON.parse succeeds on a bare JSON body only
ParsesAsJSON(t) == t.json /\ ~t.fenced

\* const { greenPoints = 0, ... } = analysis.riskAssessment
OrZero(n) == IF n = NoNum THEN 0 ELSE n

\* if (!v) v = []
OrEmpty(v) == IF Falsy(v) THEN JArr(<<>>) ELSE v

\* if (!v || !Array.isArray(v)) v = dflt
ArrayOr(v, dflt) == IF Falsy(v) \/ ~IsArray(v) THEN JArr(dflt) ELSE v

\* the recomputation of the risk block in src/server.js
RecomputeRisk(ra) ==
  IF ~ra.present THEN ra
  ELSE [ra EXCEPT
          !.riskScore = calculateRiskScore(OrZero(ra.greenPoints),
                                           OrZero(ra.yellowPoints),
                                           OrZero(ra.redPoints)),
          !.greenRisks = OrEmpty(ra.greenRisks),
          !.yellowRisks = OrEmpty(ra.yellowRisks),
          !.redRisks = OrEmpty(ra.redRisks)]

\* the object returned when JSON.parse throws
FallbackBody(v) ==
  IF v = "accounts"
  THEN [legalReferences |-> JArr(<<>>), vagueTerms |-> JArr(<<>>),
        keyTerms |-> JArr(<<>>), redFlags |-> JArr(<<>>),
        suggestedQuestions |-> JArr(<<"Obligations">>),
        riskAssessment |->
          [present |-> TRUE, riskScore |-> 50,
           greenPoints |-> 0, yellowPoints |-> 1, redPoints |-> 0,
           greenRisks |-> JArr(<<>>), yellowRisks |-> JArr(<<AnalysisError>>),
           redRisks |-> JArr(<<>>), risks |-> JAbsent]]
  ELSE [legalReferences |-> JAbsent, vagueTerms |-> JArr(<<>>),
        keyTerms |-> JArr(<<>>), redFlags |-> JArr(<<>>),
        suggestedQuestions |-> JAbsent,
        riskAssessment |->
          [present |-> TRUE, riskScore |-> 5,
           greenPoints |-> NoNum, yellowPoints |-> NoNum, redPoints |-> NoNum,
           greenRisks |-> JAbsent, yellowRisks |-> JAbsent,
           redRisks |-> JAbsent, risks |-> JArr(<<AnalysisError>>)]]

\* the parsed object after the service's fix-ups (those of the summary block,
\* which no property here reads, are left out)
ParsedBody(v, b) ==
  IF v = "accounts"
  THEN [b EXCEPT
          !.riskAssessment = RecomputeRisk(b.riskAssessment),
          !.legalReferences = ArrayOr(b.legalReferences, <<>>),
          !.suggestedQuestions = ArrayOr(b.suggestedQuestions, FallbackQuestions)]
  ELSE b

\* What analyzeContractWithGemini does with the provider's text: the inner
\* try/catch around JSON.parse, inside the outer try/catch that rethrows.
\* text.split(' ') in the fallback throws a TypeError unless text is a string.
HandleModelText(v, analysisText, parties, text) ==
  IF ParsesAsJSON(cleanedText(analysisText))
  THEN [threw |-> FALSE, message |-> "",
        analysis |-> [kind |-> "parsed",
                      body |-> ParsedBody(v, analysisText.body),
                      error |-> "", parties |-> parties]]
  ELSE IF text.k # "string"
  THEN [threw |-> TRUE,
        message |-> "Failed to analyze document with AI: text.split is not a function",
        analysis |-> NoAnalysis]
  ELSE [threw |-> FALSE, message |-> "",
        analysis |-> [kind |-> "fallback", body |-> FallbackBody(v),
                      error |-> "JSON parsing failed", parties |-> parties]]

-----------------------------------------------------------------------------
(* Inputs *)

FieldVals == {JAbsent, JArr(<<"item">>), JStr}

ModelScore == 7                      \* a riskScore the model wrote itself

Risk(score, g, y, r, lists) ==
  [present |-> TRUE, riskScore |-> score,
   greenPoints |-> g, yellowPoints |-> y, redPoints |-> r,
   greenRisks |-> lists, yellowRisks |-> lists, redRisks |-> lists,
   risks |-> lists]

RiskVals ==
  { NoRisk,
    Risk(NoNum, NoNum, NoNum, NoNum, JAbsent),
    Risk(ModelScore, NoNum, NoNum, NoNum, JAbsent),
    Risk(ModelScore, 2, 1, 1, JArr(<<"Liability">>)),
    Risk(ModelScore, 0, 0, 0, JArr(<<>>)),
    Risk(NoNum, 0, 1, 3, JArr(<<"Liability">>)) }

Bodies ==
  [legalReferences : FieldVals, vagueTerms : FieldVals, keyTerms : FieldVals,
   redFlags : FieldVals, suggestedQuestions : FieldVals, riskAssessment : RiskVals]

\* every text the provider may return
ModelTexts ==
  [fenced : BOOLEAN, json : {TRUE}, body : Bodies]
    \cup [fenced : BOOLEAN, json : {FALSE}, body : {EmptyBody}]

Variants == {"accounts", "basic"}

\* parsedParties: {} or the object the request carried; null when the string
\* "null" was parsed
PartiesVals == {"empty", "object", "null"}

\* documentText: a string or array with its length, or a number (no length)
Text(k, n) == [k |-> k, n |-> n]

-----------------------------------------------------------------------------
(* States in which a part of the model is not running *)

ScoreOff == scPc = "off" /\ scIn = <<0, 0, 0>> /\ scOut = NoNum

\* no client of the user-data endpoints
StoreOff == clients = <<>>

\* a cleaner that is not running
NoCleaner ==
  [pc |-> "off", listing |-> <<>>, old |-> {}, at |-> 1, kept |-> {},
   removed |-> {}, logged |-> {}, raised |-> FALSE]

\* no sweep, no shutdown
SweepOff == aged = {} /\ sweeper = NoCleaner /\ shutdown = NoCleaner

NoSocket == [open |-> FALSE, received |-> <<>>]
NoSource == [incs |-> <<>>, error |-> ""]

\* no streaming request with its two ends
WireOff == socket = NoSocket /\ source = NoSource /\ streamsLeft = 0

NormOff ==
  /\ nzPc = "off"
  /\ nzIn = [variant |-> "accounts", out |-> [fenced |-> FALSE, json |-> FALSE,
                                                 body |-> EmptyBody],
             parties |-> "empty", text |-> Text("string", 0)]
  /\ nzOut = [threw |-> FALSE, message |-> "", analysis |-> NoAnalysis]

-----------------------------------------------------------------------------
(* SpecScore: calculateRiskScore on every triple of counts within the bound *)

Calculate ==
  /\ scPc = "input"
  /\ scOut' = calculateRiskScore(scIn[1], scIn[2], scIn[3])
  /\ scPc' = "done"
  /\ UNCHANGED <<scIn, procVars, normVars, analyzeVars, streamVars, storeVars, sweepVars, wireVars>>

\* 100 * (g + 0.5 * y) / (g + y + r) rounded to the nearest integer, over the
\* rationals: floor((100 * (2g + y) + t) / 2t) with t = g + y + r
RoundedRatio(g, y, r) ==
  LET t == g + y + r IN (100 * (2 * g + y) + t) \div (2 * t)

\* C5: calculateRiskScore(g, y, r) is round(100 * (g + 0.5 * y) / (g + y + r))
\* when g + y + r > 0, is 50 when all three are 0, and lies in [0, 100].
C5_ScoreIsRoundedRatio ==
  scPc = "done" =>
    LET g == scIn[1]
        y == scIn[2]
        r == scIn[3]
    IN  /\ g + y + r = 0 => scOut = 50
        /\ g + y + r > 0 => scOut = RoundedRatio(g, y, r)
        /\ scOut \in 0..100

\* the part of C5 the code does satisfy: 50 for no counts, and the range
ScoreInRange ==
  scPc = "done" =>
    /\ scIn = <<0, 0, 0>> => scOut = 50
    /\ scOut \in 0..100

-----------------------------------------------------------------------------
(* POST /api/analyze-document *)

MinLength == 100
MaxLength == 100000

NoFile  == 0                         \* filePath = null; files are named 1, 2, ...
NoEmail == ""

Emails == {"a@x.io"}
Exts   == {".pdf", ".docx", ".txt"}

Row(email, serial, data) == [email |-> email, serial |-> serial, data |-> data]

\* the parties field of the request body
RawParties == {"absent", "object", "jsonObject", "jsonNull", "notJson"}

\* the text field of the request body: absent, a string (possibly empty), a
\* number other than 0, or an array
TextVals ==
  {Text("absent", 0), Text("number", 0), Text("array", MinLength)}
    \cup {Text("string", n) : n \in {0, MinLength - 1, MinLength, MaxLength,
                                      MaxLength + 1}}

\* req.file (the extension of the uploaded file, or NoExt), req.body.text,
\* req.body.email, req.body.parties
NoExt == ""
Requests ==
  [file : Exts \cup {NoExt}, text : TextVals, email : Emails \cup {NoEmail},
   parties : RawParties]

Truthy(t)    == t.k \in {"number", "array"} \/ (t.k = "string" /\ t.n > 0)
HasLength(t) == t.k \in {"string", "array"}

\* documentText.length < 100 ; undefined < 100 is false
TooShort(t) == HasLength(t) /\ t.n < MinLength
\* a boundary slip: the maximum length itself turned away
TooLongInclusive(t) == HasLength(t) /\ t.n >= MaxLength

\* documentText.length > 100000
TooLong(t)  == HasLength(t) /\ t.n > MaxLength

\* typeof parties === 'string' ? JSON.parse(parties) : parties, {} when the
\* field is missing or JSON.parse throws
ParseParties(p) ==
  CASE p = "absent"     -> "empty"
    [] p = "object"     -> "object"
    [] p = "jsonObject" -> "object"
    [] p = "jsonNull"   -> "null"
    [] p = "notJson"    -> "empty"

\* select('email, serial').eq('email', email).order('serial', desc).limit(1)
AuthLookup(rows, email) ==
  LET mine == {r \in rows : r.email = email}
  IN  IF mine = {} THEN <<>>
      ELSE <<CHOOSE r \in mine : \A q \in mine : q.serial <= r.serial>>

NoUserInfo == [present |-> FALSE, isAuthenticated |-> FALSE, totalRecords |-> 0]

Resp(status, error, message) ==
  [status |-> status, error |-> error, message |-> message,
   analysis |-> NoAnalysis, userInfo |-> NoUserInfo]

EmailRequired  == Resp(400, "Email is required for authentication", "")
NoInput        == Resp(400, "No document or text provided", "")
ContentShort   == Resp(400, "Document content is too short for meaningful analysis (minimum 100 characters)", "")
ContentLong    == Resp(400, "Document content is too long (maximum 100,000 characters)", "")
NotConfigured  == Resp(500, "AI service not configured", "Gemini API key not found")
AuthFailed(m)  == Resp(500, "Authentication check failed", m)
ProcessFailed(m) == Resp(500, "Failed to process document", m)

\* res.json({success: true, analysis, ..., userInfo}) ; the basic variant
\* sends no userInfo
Success(v, analysis, rows) ==
  [status |-> 200, error |-> "", message |-> "", analysis |-> analysis,
   userInfo |-> IF v = "accounts"
                THEN [present |-> TRUE, isAuthenticated |-> Len(rows) > 0,
                      totalRecords |-> Len(rows)]
                ELSE NoUserInfo]

\* The handler's locals together with what it has sent and the temp directory
Handler ==
  [pc |-> pc, filePath |-> filePath, documentText |-> documentText,
   parsedParties |-> parsedParties, analysisSource |-> analysisSource,
   responses |-> responses, providerCalls |-> providerCalls, tempDir |-> tempDir]

Fresh(dir) ==
  [pc |-> "idle", filePath |-> NoFile, documentText |-> Text("string", 0),
   parsedParties |-> "empty", analysisSource |-> "",
   responses |-> <<>>, providerCalls |-> 0, tempDir |-> dir]

Become(h) ==
  /\ pc' = h.pc
  /\ filePath' = h.filePath
  /\ documentText' = h.documentText
  /\ parsedParties' = h.parsedParties
  /\ analysisSource' = h.analysisSource
  /\ responses' = h.responses
  /\ providerCalls' = h.providerCalls
  /\ tempDir' = h.tempDir

\* finally { if (filePath && fs.existsSync(filePath)) fs.unlinkSync(filePath) }
Finally(fp, dir) == IF fp # NoFile /\ fp \in dir THEN dir \ {fp} ELSE dir

\* a slip: the handler left without sending the response
ExitSilently(h, resp) ==
  [h EXCEPT !.pc = "returned", !.tempDir = Finally(h.filePath, @)]

\* send a response and leave the handler through its finally block
Exit(h, resp) ==
  [h EXCEPT !.pc = "returned",
            !.responses = Append(@, resp),
            !.tempDir = Finally(h.filePath, @)]

\* From the length checks up to the provider call.  analyzeContractWithGemini
\* reads parties.party1 while it builds the prompt, before it calls the
\* provider: that throws when parties is null.
Validate(h, r, key, doc) ==
  LET h1 == [h EXCEPT !.documentText = doc] IN
  IF TooShort(doc) THEN Exit(h1, ContentShort)
  ELSE IF TooLong(doc) THEN Exit(h1, ContentLong)
  ELSE LET h2 == [h1 EXCEPT !.parsedParties = ParseParties(r.parties)] IN
       IF ~key THEN Exit(h2, NotConfigured)
       ELSE IF h2.parsedParties = "null"
       THEN Exit(h2, ProcessFailed("Failed to analyze document with AI: Cannot read properties of null"))
       ELSE [h2 EXCEPT !.pc = "provider", !.providerCalls = @ + 1]

\* if (req.file) ... else if (req.body.text) ... else 400
ResolveSource(h, r, key, up) ==
  IF r.file # NoExt
  THEN [h EXCEPT !.filePath = up, !.analysisSource = "file", !.pc = "extract"]
  ELSE IF Truthy(r.text)
  THEN Validate([h EXCEPT !.analysisSource = "text"], r, key, r.text)
  ELSE Exit(h, NoInput)

\* the start of the handler, up to its first await or its return
Begin(v, h, r, key, up) ==
  IF v = "accounts"
  THEN IF r.email = NoEmail THEN Exit(h, EmailRequired)
       ELSE [h EXCEPT !.pc = "auth"]
  ELSE ResolveSource(h, r, key, up)

\* what a format decoder may do with the file
DecoderErrors == {"bad XRef entry", "Could not find file in options"}
Decodings ==
  [ok : {TRUE}, n : {MinLength - 1, MinLength, MaxLength + 1}, error : {""}]
    \cup [ok : {FALSE}, n : {0}, error : DecoderErrors]

NoDecoding == [ok |-> FALSE, n |-> 0, error |-> ""]

\* a slip: the decoder's error rethrown as it is
extractTextRethrowing(dec) ==
  IF dec.ok
  THEN [threw |-> FALSE, text |-> Text("string", dec.n), message |-> ""]
  ELSE [threw |-> TRUE, text |-> Text("string", 0), message |-> dec.error]

\* extractTextFromFile: the decoder's text, or the one error it rethrows
extractTextFromFile(dec) ==
  IF dec.ok
  THEN [threw |-> FALSE, text |-> Text("string", dec.n), message |-> ""]
  ELSE [threw |-> TRUE, text |-> Text("string", 0),
        message |-> "Failed to extract text from document"]

\* what the provider call may come back with
ProviderTexts ==
  { [fenced |-> FALSE, json |-> FALSE, body |-> EmptyBody],
    [fenced |-> FALSE, json |-> TRUE, body |-> EmptyBody],
    [fenced |-> TRUE, json |-> TRUE,
     body |-> [EmptyBody EXCEPT
                 !.riskAssessment = Risk(ModelScore, 2, 1, 1, JArr(<<"Liability">>)),
                 !.vagueTerms = JArr(<<"item">>)]],
    [fenced |-> FALSE, json |-> TRUE,
     body |-> [EmptyBody EXCEPT
                 !.riskAssessment = Risk(ModelScore, NoNum, NoNum, NoNum, JAbsent)]] }

NoOutcome == [ok |-> FALSE, error |-> "", text |-> [fenced |-> FALSE, json |-> FALSE, body |-> EmptyBody]]

ProviderOutcomes ==
  [ok : {TRUE}, error : {""}, text : ProviderTexts]
    \cup {[NoOutcome EXCEPT !.error = "fetch failed"]}

\* a slip: a failed provider call made once more
AfterProviderRetrying(v, h, o, rows) ==
  IF ~o.ok /\ h.providerCalls < 2
  THEN [h EXCEPT !.providerCalls = @ + 1]
  ELSE IF ~o.ok
  THEN Exit(h, ProcessFailed("Failed to analyze document with AI: " \o o.error))
  ELSE LET hm == HandleModelText(v, o.text, h.parsedParties, h.documentText) IN
       IF hm.threw THEN Exit(h, ProcessFailed(hm.message))
       ELSE Exit(h, Success(v, hm.analysis, rows))

\* after await analyzeContractWithGemini(...): the response, or the catch
AfterProvider(v, h, o, rows) ==
  IF ~o.ok
  THEN Exit(h, ProcessFailed("Failed to analyze document with AI: " \o o.error))
  ELSE LET hm == HandleModelText(v, o.text, h.parsedParties, h.documentText) IN
       IF hm.threw THEN Exit(h, ProcessFailed(hm.message))
       ELSE Exit(h, Success(v, hm.analysis, rows))

\* multer stores the upload under a new name, then the handler starts
Receive(r) ==
  /\ pc = "idle"
  /\ nReq < MaxRequests
  /\ LET up  == IF r.file # NoExt THEN nReq + 1 ELSE NoFile
         dir == IF up # NoFile THEN tempDir \cup {up} ELSE tempDir
     IN  /\ Become(Begin(variant, Fresh(dir), r, apiKey, up))
         /\ upload' = up
  /\ req' = r
  /\ nReq' = nReq + 1
  /\ userData' = <<>>
  /\ decoded' = NoDecoding
  /\ provided' = NoOutcome
  /\ UNCHANGED <<variant, apiKey, store, scoreVars, normVars, streamVars, storeVars, sweepVars, wireVars>>

\* the authentication lookup returns rows or a store error
AuthReturn(failed) ==
  /\ pc = "auth"
  /\ IF failed
     THEN /\ Become(Exit(Handler, AuthFailed("store error")))
          /\ UNCHANGED userData
     ELSE /\ userData' = AuthLookup(store, req.email)
          /\ Become(ResolveSource(Handler, req, apiKey, upload))
  /\ UNCHANGED <<req, nReq, upload, decoded, provided>>
  /\ UNCHANGED <<variant, apiKey, store, scoreVars, normVars, streamVars, storeVars, sweepVars, wireVars>>

\* extractTextFromFile returns or throws; a file that is gone cannot be read
ExtractReturn(dec) ==
  /\ pc = "extract"
  /\ dec.ok => filePath \in tempDir
  /\ decoded' = dec
  /\ LET x == extractTextFromFile(dec) IN
     IF x.threw THEN Become(Exit(Handler, ProcessFailed(x.message)))
     ELSE Become(Validate(Handler, req, apiKey, x.text))
  /\ UNCHANGED <<req, nReq, upload, userData, provided>>
  /\ UNCHANGED <<variant, apiKey, store, scoreVars, normVars, streamVars, storeVars, sweepVars, wireVars>>

\* the provider call returns text or fails
ProviderReturn(o) ==
  /\ pc = "provider"
  /\ provided' = o
  /\ Become(AfterProvider(variant, Handler, o, userData))
  /\ UNCHANGED <<req, nReq, upload, userData, decoded>>
  /\ UNCHANGED <<variant, apiKey, store, scoreVars, normVars, streamVars, storeVars, sweepVars, wireVars>>

NoRequest ==
  [file |-> NoExt, text |-> Text("absent", 0), email |-> NoEmail,
   parties |-> "absent"]

\* the handler has returned and the response is out: the request and the
\* handler's locals are gone, the temp directory is as the handler left it
RequestEnds ==
  /\ pc = "returned"
  /\ Become(Fresh(tempDir))
  /\ req' = NoRequest
  /\ upload' = NoFile
  /\ userData' = <<>>
  /\ decoded' = NoDecoding
  /\ provided' = NoOutcome
  /\ UNCHANGED <<nReq, variant, apiKey, store, scoreVars, normVars, streamVars, storeVars, sweepVars, wireVars>>

-----------------------------------------------------------------------------
(* POST /api/ask-question-stream *)

\* chunk.text() of one increment
ChunkTexts == {"", "a", "b"}

\* the message of an error the provider may throw
StreamErrors == {"stream interrupted", "quota exceeded"}

\* whether the body carries a question and a context
StreamRequests == [question : BOOLEAN, context : BOOLEAN]

\* an event on the channel: {type: 'chunk', text}, {type: 'done', fullText}
\* or the error event {error: message}, here of type "error"
Event(type, text) == [type |-> type, text |-> text]

JsonError(status, error) == [status |-> status, error |-> error]

\* a slip: the check of the context left out
RejectionWithoutContextCheck(q, key) ==
  IF ~q.question THEN <<JsonError(400, "Question is required")>>
  ELSE IF ~key THEN <<JsonError(500, "AI service not configured")>>
  ELSE <<>>

\* the checks before the event-stream headers: the response that rejects the
\* request, or none
Rejection(q, key) ==
  IF ~q.question THEN <<JsonError(400, "Question is required")>>
  ELSE IF ~q.context THEN <<JsonError(400, "Analysis context is required")>>
  ELSE IF ~key THEN <<JsonError(500, "AI service not configured")>>
  ELSE <<>>

\* a slip: the increment put in front of the text so far
AccumulateInFront(full, chunkText) == chunkText \o full

\* fullAnswer += chunkText
Accumulate(full, chunkText) == full \o chunkText

\* a slip: the chunk held back instead of written
WriteChunkLater(evs, chunkText) == evs

\* res.write of the chunk event
WriteChunk(evs, chunkText) == Append(evs, Event("chunk", chunkText))

\* the loop has ended: res.write of the done event
WriteDone(evs, full) == Append(evs, Event("done", full))

\* a slip: the catch ends the stream without writing the error
WriteNoError(evs, message) == evs

\* catch (streamError): res.write of the error event
WriteError(evs, message) == Append(evs, Event("error", message))

StreamReceive(q) ==
  /\ spc \in {"idle", "returned"}
  /\ sreq' = q
  /\ produced' = <<>>
  /\ serror' = ""
  /\ fullAnswer' = ""
  /\ events' = <<>>
  /\ ended' = FALSE
  /\ jsonResp' = Rejection(q, apiKey)
  /\ IF Rejection(q, apiKey) # <<>>
     THEN spc' = "returned" /\ sheaders' = FALSE /\ streamCalls' = 0
     ELSE spc' = "open" /\ sheaders' = TRUE /\ streamCalls' = 1
  /\ UNCHANGED <<procVars, scoreVars, normVars, analyzeVars, storeVars, sweepVars, wireVars>>

\* await model.generateContentStream(prompt) returns the stream or fails
StreamOpenReturn(error) ==
  /\ spc = "open"
  /\ IF error = ""
     THEN spc' = "iter" /\ UNCHANGED <<serror, events, ended>>
     ELSE /\ serror' = error
          /\ events' = WriteError(events, error)
          /\ ended' = TRUE
          /\ spc' = "returned"
  /\ UNCHANGED <<sreq, sheaders, produced, fullAnswer, jsonResp, streamCalls>>
  /\ UNCHANGED <<procVars, scoreVars, normVars, analyzeVars, storeVars, sweepVars, wireVars>>

\* one turn of for await: the stream yields an increment
StreamChunk(chunkText) ==
  /\ spc = "iter"
  /\ Len(produced) < MaxChunks
  /\ produced' = Append(produced, chunkText)
  /\ fullAnswer' = Accumulate(fullAnswer, chunkText)
  /\ events' = WriteChunk(events, chunkText)
  /\ UNCHANGED <<spc, sreq, sheaders, serror, ended, jsonResp, streamCalls>>
  /\ UNCHANGED <<procVars, scoreVars, normVars, analyzeVars, storeVars, sweepVars, wireVars>>

\* the stream is exhausted: the done event, then res.end()
StreamDone ==
  /\ spc = "iter"
  /\ events' = WriteDone(events, fullAnswer)
  /\ ended' = TRUE
  /\ spc' = "returned"
  /\ UNCHANGED <<sreq, sheaders, produced, serror, fullAnswer, jsonResp, streamCalls>>
  /\ UNCHANGED <<procVars, scoreVars, normVars, analyzeVars, storeVars, sweepVars, wireVars>>

\* the stream throws: rethrown to the handler, the error event, then res.end()
StreamFail(error) ==
  /\ spc = "iter"
  /\ serror' = error
  /\ events' = WriteError(events, error)
  /\ ended' = TRUE
  /\ spc' = "returned"
  /\ UNCHANGED <<sreq, sheaders, produced, fullAnswer, jsonResp, streamCalls>>
  /\ UNCHANGED <<procVars, scoreVars, normVars, analyzeVars, storeVars, sweepVars, wireVars>>

-----------------------------------------------------------------------------
(* The streaming answer, step by step: the provider's stream as it is       *)
(* consumed, the turns of the loop, and the client's connection             *)

\* the sequences over a set of at most n elements
SeqUpTo(S, n) == UNION {[1..k -> S] : k \in 0..n}

\* what result.stream holds: its increments, and the error it throws after
\* them ("" when it completes)
Sources == [incs : SeqUpTo(ChunkTexts, MaxChunks), error : StreamErrors \cup {""}]

\* a slip: the loop left when the client is gone
PendingWhileConnected(src, taken, sock) ==
  IF sock.open THEN Len(src.incs) - taken ELSE 0

\* for await (const chunk of result.stream): the increments the loop has yet
\* to take; it tests nothing but the stream
Pending(src, taken, sock) == Len(src.incs) - taken

\* what res.write or res.json puts on the connection: nothing once the client
\* is gone, and no error either
Deliver(sock, out) ==
  IF sock.open THEN [sock EXCEPT !.received = Append(@, out)] ELSE sock

StepFrame ==
  UNCHANGED <<procVars, scoreVars, normVars, analyzeVars, storeVars, sweepVars>>

\* a request arrives on a fresh connection
StepReceive(q) ==
  /\ spc \in {"idle", "returned"}
  /\ streamsLeft > 0
  /\ streamsLeft' = streamsLeft - 1
  /\ source' = NoSource
  /\ sreq' = q
  /\ produced' = <<>>
  /\ serror' = ""
  /\ fullAnswer' = ""
  /\ events' = <<>>
  /\ ended' = FALSE
  /\ jsonResp' = Rejection(q, apiKey)
  /\ IF Rejection(q, apiKey) # <<>>
     THEN /\ spc' = "returned" /\ sheaders' = FALSE /\ streamCalls' = 0
          /\ socket' = [open |-> TRUE, received |-> Rejection(q, apiKey)]
     ELSE /\ spc' = "open" /\ sheaders' = TRUE /\ streamCalls' = 1
          /\ socket' = [open |-> TRUE, received |-> <<>>]
  /\ StepFrame

\* the client goes away while the answer is being produced
ClientDisconnects ==
  /\ spc \in {"open", "iter", "write"}
  /\ socket.open
  /\ socket' = [socket EXCEPT !.open = FALSE]
  /\ UNCHANGED <<streamVars, source, streamsLeft>>
  /\ StepFrame

\* await model.generateContentStream(prompt) returns the stream or fails
StepOpenReturn(error, src) ==
  /\ spc = "open"
  /\ IF error = ""
     THEN /\ spc' = "iter"
          /\ source' = src
          /\ UNCHANGED <<serror, events, ended, socket>>
     ELSE /\ serror' = error
          /\ events' = WriteError(events, error)
          /\ socket' = Deliver(socket, Event("error", error))
          /\ ended' = TRUE
          /\ spc' = "returned"
          /\ UNCHANGED source
  /\ UNCHANGED <<sreq, sheaders, produced, fullAnswer, jsonResp, streamCalls,
                 streamsLeft>>
  /\ StepFrame

\* a turn of for await begins: the stream yields its next increment,
\* chunkText = chunk.text() and fullAnswer += chunkText
StepTake ==
  /\ spc = "iter"
  /\ Pending(source, Len(produced), socket) > 0
  /\ LET chunkText == source.incs[Len(produced) + 1] IN
     /\ produced' = Append(produced, chunkText)
     /\ fullAnswer' = Accumulate(fullAnswer, chunkText)
  /\ spc' = "write"
  /\ UNCHANGED <<sreq, sheaders, serror, events, ended, jsonResp, streamCalls,
                 wireVars>>
  /\ StepFrame

\* the turn ends: res.write of the chunk event and res.flush
StepWrite ==
  /\ spc = "write"
  /\ LET chunkText == produced[Len(produced)] IN
     /\ events' = WriteChunk(events, chunkText)
     /\ socket' = Deliver(socket, Event("chunk", chunkText))
  /\ spc' = "iter"
  /\ UNCHANGED <<sreq, sheaders, produced, serror, fullAnswer, ended, jsonResp,
                 streamCalls, source, streamsLeft>>
  /\ StepFrame

\* the loop is left with the stream complete: the done event, then res.end()
StepDone ==
  /\ spc = "iter"
  /\ Pending(source, Len(produced), socket) = 0
  /\ source.error = ""
  /\ events' = WriteDone(events, fullAnswer)
  /\ socket' = Deliver(socket, Event("done", fullAnswer))
  /\ ended' = TRUE
  /\ spc' = "returned"
  /\ UNCHANGED <<sreq, sheaders, produced, serror, fullAnswer, jsonResp,
                 streamCalls, source, streamsLeft>>
  /\ StepFrame

\* the stream throws after its increments: rethrown to the handler, the error
\* event, then res.end()
StepFail ==
  /\ spc = "iter"
  /\ Pending(source, Len(produced), socket) = 0
  /\ source.error # ""
  /\ serror' = source.error
  /\ events' = WriteError(events, source.error)
  /\ socket' = Deliver(socket, Event("error", source.error))
  /\ ended' = TRUE
  /\ spc' = "returned"
  /\ UNCHANGED <<sreq, sheaders, produced, fullAnswer, jsonResp, streamCalls,
                 source, streamsLeft>>
  /\ StepFrame

-----------------------------------------------------------------------------
(* The user_data table and the queries the handlers send to it *)

NoSerial == -1                       \* serial === undefined

Key(email, serial) == [email |-> email, serial |-> serial]
NoKey == Key("", NoSerial)

\* the rows a filter .eq('email', email).eq('serial', serial) selects
Matching(rows, email, serial) ==
  {r \in rows : r.email = email /\ r.serial = serial}

\* .select('*').eq('email', email).eq('serial', serial).single(): the row, or
\* no data (with the "not found" error PGRST116) unless exactly one row matches
Single(rows, email, serial) ==
  LET m == Matching(rows, email, serial)
  IN  IF Cardinality(m) = 1 THEN <<CHOOSE r \in m : TRUE>> ELSE <<>>

\* .order('serial', { ascending: true })
RECURSIVE Ascending(_)
Ascending(rows) ==
  IF rows = {} THEN <<>>
  ELSE LET lo == CHOOSE r \in rows : \A q \in rows : r.serial <= q.serial
       IN  <<lo>> \o Ascending(rows \ {lo})

\* the order of the authentication lookup, put where the ascending one belongs
RECURSIVE Descending(_)
Descending(rows) ==
  IF rows = {} THEN <<>>
  ELSE LET hi == CHOOSE r \in rows : \A q \in rows : q.serial <= r.serial
       IN  <<hi>> \o Descending(rows \ {hi})

\* a slip: the rows of the email in descending order
SelectByEmailDescending(rows, email) ==
  Descending({r \in rows : r.email = email})

\* .select('*').eq('email', email).order('serial', { ascending: true })
SelectByEmail(rows, email) == Ascending({r \in rows : r.email = email})

\* a slip: the update writes nothing
StoreUpdateNothing(rows, email, serial, data) == rows

\* .update({ data, updated_at }).eq('email', email).eq('serial', serial)
StoreUpdate(rows, email, serial, data) ==
  {IF r.email = email /\ r.serial = serial THEN [r EXCEPT !.data = data] ELSE r :
     r \in rows}

\* .select() after the update: the rows it updated
Updated(rows, email, serial) == Single(rows, email, serial)

DuplicateKey == "duplicate key value violates unique constraint"

\* .insert([{ email, serial, data }]): the table is unique by (email, serial)
StoreInsert(rows, row) ==
  IF Matching(rows, row.email, row.serial) # {}
  THEN [error |-> DuplicateKey, rows |-> rows]
  ELSE [error |-> "", rows |-> rows \cup {row}]

\* a slip: the filter on the serial left out
StoreDeleteByEmail(rows, email, serial) == {r \in rows : r.email # email}

\* .delete().eq('email', email).eq('serial', serialNumber)
StoreDelete(rows, email, serial) == rows \ Matching(rows, email, serial)

\* the error a store call may come back with
StoreErrors == {"connection lost"}

-----------------------------------------------------------------------------
(* POST /api/save-user-data, GET /api/get-user-data/:email,                 *)
(* DELETE /api/delete-user-data/:email/:serial                              *)

StoreEmails == {"a@x.io", "b@x.io"}
Serials     == {1, 2}
Datas       == {"d1", "d2"}

\* a request: the operation, req.body or req.params (serial is the number of
\* a save's body, param the :serial of a delete's path)
StoreReq(op, email, serial, param, data) ==
  [op |-> op, email |-> email, serial |-> serial, param |-> param, data |-> data]

NoStoreReq == StoreReq("", "", NoSerial, "", "")

SaveRequests ==
  {StoreReq("save", e, n, "", d) : e \in StoreEmails, n \in Serials, d \in Datas}
    \cup {StoreReq("save", "", 1, "", "d1"),
          StoreReq("save", "a@x.io", NoSerial, "", "d1"),
          StoreReq("save", "a@x.io", 1, "", "")}

GetRequests == {StoreReq("get", e, NoSerial, "", "") : e \in StoreEmails}

SerialParams == {"1", "2", "1x", "x"}

DeleteRequests ==
  {StoreReq("delete", e, NoSerial, p, "") : e \in StoreEmails, p \in SerialParams}

StoreRequests == SaveRequests \cup GetRequests \cup DeleteRequests

\* the requests that clients of one record send concurrently
RaceRequests ==
  {StoreReq("save", "a@x.io", 1, "", d) : d \in Datas}
    \cup {StoreReq("delete", "a@x.io", NoSerial, "1", ""),
          StoreReq("get", "a@x.io", NoSerial, "", "")}

NaN == -2

\* parseInt(serial, 10): the leading digits, NaN when there are none
parseInt(param) ==
  CASE param = "1"  -> 1
    [] param = "2"  -> 2
    [] param = "1x" -> 1
    [] OTHER        -> NaN

\* a response of one of the three handlers; data holds the record (save) or
\* the records (get) it carries
NoSResp ==
  [status |-> 0, error |-> "", message |-> "", operation |-> "",
   data |-> <<>>, count |-> 0, deleted |-> NoKey]

SBad(status, error, message) ==
  [NoSResp EXCEPT !.status = status, !.error = error, !.message = message]

\* result[0]: the first row, undefined (left out of the JSON) when there is none
First(result) == IF result = <<>> THEN <<>> ELSE <<result[1]>>

\* a slip: the insert's response copied to the update branch unchanged
SaveOkAlwaysInsert(operation, result) ==
  [NoSResp EXCEPT !.status = 200, !.message = "Data saved successfully",
                  !.operation = "insert", !.data = First(result)]

\* res.json({ success: true, message, data: result[0], operation })
SaveOk(operation, result) ==
  [NoSResp EXCEPT !.status = 200,
                  !.message = IF operation = "update"
                              THEN "Data updated successfully"
                              ELSE "Data saved successfully",
                  !.operation = operation,
                  !.data = First(result)]

\* res.json({ success: true, email, count: data.length, data })
GetOk(data) ==
  [NoSResp EXCEPT !.status = 200, !.count = Len(data), !.data = data]

\* res.json({ success: true, message, deletedRecord: { email, serial } })
DeleteOk(email, serialNumber) ==
  [NoSResp EXCEPT !.status = 200, !.message = "Data deleted successfully",
                  !.deleted = Key(email, serialNumber)]

SaveInvalid    == SBad(400, "Email, serial, and data are required", "")
GetInvalid     == SBad(400, "Email is required", "")
DeleteInvalid  == SBad(400, "Email and serial are required", "")
SerialInvalid  == SBad(400, "Serial must be a valid number", "")
GetNotFound    == SBad(404, "No data found for this email", "")
RecordNotFound == SBad(404, "Record not found", "No data found for email and serial")

\* what is kept of a client's previous request
NoPrev == [req |-> NoStoreReq, resp |-> NoSResp, failure |-> "", before |-> {}]

\* a client that will make `left` requests out of `sends`, one after another
NewClient(left, sends) ==
  [pc |-> "idle", req |-> NoStoreReq, existingData |-> <<>>,
   serialNumber |-> NoSerial, resp |-> NoSResp, calls |-> <<>>, failure |-> "",
   before |-> {}, prev |-> NoPrev, left |-> left, sends |-> sends]

\* the handler awaits a store call
Call(c, name) == [c EXCEPT !.pc = name, !.calls = Append(@, name)]

\* the handler sends a response and returns
SReturn(c, resp) == [c EXCEPT !.pc = "returned", !.resp = resp]

\* catch (error): 500 with error.message
Thrown(c, what, error) ==
  SReturn([c EXCEPT !.failure = error], SBad(500, what, error))

\* a handler from its start to its first store call, or to its return
StoreBegin(c, r, rows) ==
  LET base == [c EXCEPT !.req = r, !.existingData = <<>>,
                        !.serialNumber = NoSerial, !.resp = NoSResp,
                        !.calls = <<>>, !.failure = "", !.before = rows,
                        !.left = @ - 1,
                        !.prev = IF c.pc = "returned"
                                 THEN [req |-> c.req, resp |-> c.resp,
                                       failure |-> c.failure, before |-> c.before]
                                 ELSE NoPrev]
  IN  CASE r.op = "save" ->
             IF r.email = "" \/ r.serial = NoSerial \/ r.data = ""
             THEN SReturn(base, SaveInvalid)
             ELSE Call(base, "saveLookup")
        [] r.op = "get" ->
             IF r.email = "" THEN SReturn(base, GetInvalid)
             ELSE Call(base, "getSelect")
        [] r.op = "delete" ->
             IF r.email = "" \/ r.param = "" THEN SReturn(base, DeleteInvalid)
             ELSE IF parseInt(r.param) = NaN THEN SReturn(base, SerialInvalid)
             ELSE Call([base EXCEPT !.serialNumber = parseInt(r.param)],
                       "delLookup")

\* save: after the existence check
AfterSaveLookup(c, error, rows) ==
  IF error # "" THEN Thrown(c, "Failed to save data", error)
  ELSE LET existing == Single(rows, c.req.email, c.req.serial)
       IN  Call([c EXCEPT !.existingData = existing],
                IF existing # <<>> THEN "saveUpdate" ELSE "saveInsert")

\* save: after the update
AfterSaveUpdate(c, error, rows) ==
  IF error # "" THEN Thrown(c, "Failed to save data", error)
  ELSE SReturn(c, SaveOk("update", Updated(rows, c.req.email, c.req.serial)))

\* save: after the insert
AfterSaveInsert(c, error) ==
  IF error # "" THEN Thrown(c, "Failed to save data", error)
  ELSE SReturn(c, SaveOk("insert", <<Row(c.req.email, c.req.serial, c.req.data)>>))

\* get: after the select
AfterGet(c, error, rows) ==
  IF error # "" THEN Thrown(c, "Failed to retrieve data", error)
  ELSE LET data == SelectByEmail(rows, c.req.email)
       IN  IF Len(data) = 0 THEN SReturn(c, GetNotFound)
           ELSE SReturn(c, GetOk(data))

\* delete: after the existence check; if (fetchError || !existingData) 404
AfterDeleteLookup(c, error, rows) ==
  LET existing == IF error # "" THEN <<>>
                  ELSE Single(rows, c.req.email, c.serialNumber)
      c1 == [c EXCEPT !.existingData = existing, !.failure = error]
  IN  IF error # "" \/ existing = <<>> THEN SReturn(c1, RecordNotFound)
      ELSE Call(c1, "delDelete")

\* delete: after the deletion
AfterDelete(c, error) ==
  IF error # "" THEN Thrown(c, "Failed to delete data", error)
  ELSE SReturn(c, DeleteOk(c.req.email, c.serialNumber))

StoreFrame ==
  UNCHANGED <<variant, apiKey, tempDir, scoreVars, normVars, analyzeVars,
              streamVars, sweepVars, wireVars>>

\* client i sends request r
StoreReceive(i, r) ==
  /\ clients[i].pc \in {"idle", "returned"}
  /\ clients[i].left > 0
  /\ r \in clients[i].sends
  /\ clients' = [clients EXCEPT ![i] = StoreBegin(@, r, store)]
  /\ UNCHANGED store
  /\ StoreFrame

SaveLookupReturn(i, error) ==
  /\ clients[i].pc = "saveLookup"
  /\ clients' = [clients EXCEPT ![i] = AfterSaveLookup(@, error, store)]
  /\ UNCHANGED store
  /\ StoreFrame

SaveUpdateReturn(i, error) ==
  /\ clients[i].pc = "saveUpdate"
  /\ LET c == clients[i]
         rows == IF error # "" THEN store
                 ELSE StoreUpdate(store, c.req.email, c.req.serial, c.req.data)
     IN  /\ store' = rows
         /\ clients' = [clients EXCEPT ![i] = AfterSaveUpdate(c, error, rows)]
  /\ StoreFrame

SaveInsertReturn(i, error) ==
  /\ clients[i].pc = "saveInsert"
  /\ LET c == clients[i]
         ins == IF error # "" THEN [error |-> error, rows |-> store]
                ELSE StoreInsert(store, Row(c.req.email, c.req.serial, c.req.data))
     IN  /\ store' = ins.rows
         /\ clients' = [clients EXCEPT ![i] = AfterSaveInsert(c, ins.error)]
  /\ StoreFrame

GetReturn(i, error) ==
  /\ clients[i].pc = "getSelect"
  /\ clients' = [clients EXCEPT ![i] = AfterGet(@, error, store)]
  /\ UNCHANGED store
  /\ StoreFrame

DeleteLookupReturn(i, error) ==
  /\ clients[i].pc = "delLookup"
  /\ clients' = [clients EXCEPT ![i] = AfterDeleteLookup(@, error, store)]
  /\ UNCHANGED store
  /\ StoreFrame

DeleteReturn(i, error) ==
  /\ clients[i].pc = "delDelete"
  /\ LET c == clients[i]
     IN  /\ store' = IF error # "" THEN store
                     ELSE StoreDelete(store, c.req.email, c.serialNumber)
         /\ clients' = [clients EXCEPT ![i] = AfterDelete(c, error)]
  /\ StoreFrame

-----------------------------------------------------------------------------
(* The temp directory's cleaners: the finalizer of a request, the hourly    *)
(* sweep and the shutdown cleanup.  Their file-system calls are taken one   *)
(* at a time, so that a file may be gone by the time a cleaner comes to it  *)
(* (server processes that share the directory, as when one starts while     *)
(* another shuts down).                                                     *)

\* fs.readdirSync(tempDir): the names, in order
RECURSIVE Listing(_)
Listing(dir) ==
  IF dir = {} THEN <<>>
  ELSE LET lo == CHOOSE f \in dir : \A g \in dir : f <= g
       IN  <<lo>> \o Listing(dir \ {lo})

\* a cleaner that waits for its timer or its signal
Waiting == [NoCleaner EXCEPT !.pc = "waiting"]

\* the file a cleaner is at
Current(c) == c.listing[c.at]

\* a cleaner that has read the directory and starts on its first file
Started(dir, first) ==
  IF dir = {} THEN [NoCleaner EXCEPT !.pc = "done"]
  ELSE [NoCleaner EXCEPT !.pc = first, !.listing = Listing(dir)]

\* files.forEach: on to the next file, or through
Advance(c, first) ==
  IF c.at = Len(c.listing) THEN [c EXCEPT !.pc = "done", !.at = @ + 1]
  ELSE [c EXCEPT !.pc = first, !.at = @ + 1]

\* a slip: no try/catch around the file's calls, the error leaves forEach
SweepThrows(c) == [c EXCEPT !.pc = "done", !.raised = TRUE]

\* the sweep's catch (error) { console.error(...) }: logged, on to the next
SweepCatch(c) == Advance([c EXCEPT !.logged = @ \cup {Current(c)}], "stat")

\* cleanupTempFiles' catch (error) { console.error(...) }
CleanupCatch(c) == Advance([c EXCEPT !.logged = @ \cup {Current(c)}], "unlink")

\* the finalizer's catch (deleteError) { console.error(...) }: the handler
\* returns as it would have
FinallyCatch == "returned"

SweepFrame ==
  UNCHANGED <<variant, apiKey, store, scoreVars, normVars, streamVars,
              storeVars, wireVars, req, nReq, upload, filePath, documentText,
              userData, parsedParties, analysisSource, responses,
              providerCalls, decoded, provided>>

\* finally: if (filePath && fs.existsSync(filePath))
FinallyExists ==
  /\ pc = "finally"
  /\ pc' = IF filePath # NoFile /\ filePath \in tempDir THEN "unlinking"
           ELSE "returned"
  /\ UNCHANGED <<tempDir, sweepVars>>
  /\ SweepFrame

\* finally: try { fs.unlinkSync(filePath) } catch (deleteError) { ... }
FinallyUnlink ==
  /\ pc = "unlinking"
  /\ IF filePath \in tempDir
     THEN tempDir' = tempDir \ {filePath} /\ pc' = "returned"
     ELSE UNCHANGED tempDir /\ pc' = FinallyCatch
  /\ UNCHANGED sweepVars
  /\ SweepFrame

\* time passes: a file becomes older than one hour
Age(f) ==
  /\ f \in tempDir \ aged
  /\ aged' = aged \cup {f}
  /\ UNCHANGED <<pc, tempDir, sweeper, shutdown>>
  /\ SweepFrame

\* the interval fires: fs.readdirSync(tempDir) and now = Date.now(), against
\* which every file's age is measured
SweepTick ==
  /\ sweeper.pc = "waiting"
  /\ sweeper' = [Started(tempDir, "stat") EXCEPT !.old = aged]
  /\ UNCHANGED <<pc, tempDir, aged, shutdown>>
  /\ SweepFrame

\* fs.statSync(filePath) and the test of the file's age
SweepStat ==
  /\ sweeper.pc = "stat"
  /\ LET f == Current(sweeper) IN
     sweeper' = IF f \notin tempDir THEN SweepCatch(sweeper)
                ELSE IF f \in sweeper.old THEN [sweeper EXCEPT !.pc = "unlink"]
                ELSE Advance([sweeper EXCEPT !.kept = @ \cup {f}], "stat")
  /\ UNCHANGED <<pc, tempDir, aged, shutdown>>
  /\ SweepFrame

\* fs.unlinkSync(filePath) of a file found older than one hour
SweepUnlink ==
  /\ sweeper.pc = "unlink"
  /\ LET f == Current(sweeper) IN
     IF f \notin tempDir
     THEN sweeper' = SweepCatch(sweeper) /\ UNCHANGED tempDir
     ELSE /\ tempDir' = tempDir \ {f}
          /\ sweeper' = Advance([sweeper EXCEPT !.removed = @ \cup {f}], "stat")
  /\ UNCHANGED <<pc, aged, shutdown>>
  /\ SweepFrame

\* SIGINT or SIGTERM: cleanupTempFiles reads the directory
ShutdownSignal ==
  /\ shutdown.pc = "waiting"
  /\ shutdown' = Started(tempDir, "unlink")
  /\ UNCHANGED <<pc, tempDir, aged, sweeper>>
  /\ SweepFrame

\* cleanupTempFiles: fs.unlinkSync(filePath) of the next file
ShutdownUnlink ==
  /\ shutdown.pc = "unlink"
  /\ LET f == Current(shutdown) IN
     IF f \notin tempDir
     THEN shutdown' = CleanupCatch(shutdown) /\ UNCHANGED tempDir
     ELSE /\ tempDir' = tempDir \ {f}
          /\ shutdown' = Advance([shutdown EXCEPT !.removed = @ \cup {f}], "unlink")
  /\ UNCHANGED <<pc, aged, sweeper>>
  /\ SweepFrame

-----------------------------------------------------------------------------
(* Specifications *)

StoreInits ==
  { {}, {Row("a@x.io", 1, "d1")}, {Row("a@x.io", 1, "d1"), Row("a@x.io", 2, "d2")} }

ProcOff == variant = "accounts" /\ apiKey = TRUE /\ tempDir = {} /\ store = {}

AnalyzeOff ==
  /\ pc = "idle"
  /\ req = NoRequest
  /\ nReq = 0
  /\ upload = NoFile
  /\ filePath = NoFile
  /\ documentText = Text("string", 0)
  /\ userData = <<>>
  /\ parsedParties = "empty"
  /\ analysisSource = ""
  /\ responses = <<>>
  /\ providerCalls = 0
  /\ decoded = NoDecoding
  /\ provided = NoOutcome

StreamOff ==
  /\ spc = "idle"
  /\ sreq = [question |-> FALSE, context |-> FALSE]
  /\ sheaders = FALSE
  /\ produced = <<>>
  /\ serror = ""
  /\ fullAnswer = ""
  /\ events = <<>>
  /\ ended = FALSE
  /\ jsonResp = <<>>
  /\ streamCalls = 0

InitScore ==
  /\ scPc = "input"
  /\ scIn \in (0..MaxPoints) \X (0..MaxPoints) \X (0..MaxPoints)
  /\ scOut = NoNum
  /\ ProcOff /\ NormOff /\ AnalyzeOff /\ StreamOff /\ StoreOff /\ SweepOff /\ WireOff

NextScore == Calculate

SpecScore == InitScore /\ [][NextScore]_vars

\* the provider's text goes through analyzeContractWithGemini's parsing
Normalize ==
  /\ nzPc = "input"
  /\ nzOut' = HandleModelText(nzIn.variant, nzIn.out, nzIn.parties, nzIn.text)
  /\ nzPc' = "done"
  /\ UNCHANGED <<nzIn, procVars, scoreVars, analyzeVars, streamVars, storeVars, sweepVars, wireVars>>

InitNorm ==
  /\ nzPc = "input"
  /\ nzIn \in [variant : Variants, out : ModelTexts, parties : {"empty", "object"},
               text : {Text("string", MinLength), Text("array", MinLength)}]
  /\ nzOut = [threw |-> FALSE, message |-> "", analysis |-> NoAnalysis]
  /\ ProcOff /\ ScoreOff /\ AnalyzeOff /\ StreamOff /\ StoreOff /\ SweepOff /\ WireOff

NextNorm == Normalize

SpecNorm == InitNorm /\ [][NextNorm]_vars

Init ==
  /\ variant \in Variants
  /\ apiKey \in BOOLEAN
  /\ tempDir = {}
  /\ store \in StoreInits
  /\ AnalyzeOff /\ ScoreOff /\ NormOff /\ StreamOff /\ StoreOff /\ SweepOff /\ WireOff

Next ==
  \/ \E r \in Requests : Receive(r)
  \/ \E failed \in BOOLEAN : AuthReturn(failed)
  \/ \E dec \in Decodings : ExtractReturn(dec)
  \/ \E o \in ProviderOutcomes : ProviderReturn(o)
  \/ RequestEnds

Spec == Init /\ [][Next]_vars

InitStream ==
  /\ variant = "accounts"
  /\ apiKey \in BOOLEAN
  /\ tempDir = {}
  /\ store = {}
  /\ StreamOff /\ ScoreOff /\ NormOff /\ AnalyzeOff /\ StoreOff /\ SweepOff /\ WireOff

NextStream ==
  \/ \E q \in StreamRequests : StreamReceive(q)
  \/ \E e \in StreamErrors \cup {""} : StreamOpenReturn(e)
  \/ \E c \in ChunkTexts : StreamChunk(c)
  \/ StreamDone
  \/ \E e \in StreamErrors : StreamFail(e)

SpecStream == InitStream /\ [][NextStream]_vars

\* every table with at most one row per (email, serial)
StoreTables ==
  SUBSET {Row(e, n, "d0") : e \in StoreEmails, n \in Serials}

InitStore ==
  /\ variant = "accounts" /\ apiKey = TRUE /\ tempDir = {}
  /\ store \in StoreTables
  /\ clients = <<NewClient(MaxCalls, StoreRequests)>>
  /\ AnalyzeOff /\ ScoreOff /\ NormOff /\ StreamOff /\ SweepOff /\ WireOff

NextStore ==
  \/ \E i \in DOMAIN clients : \E r \in StoreRequests : StoreReceive(i, r)
  \/ \E i \in DOMAIN clients : \E e \in StoreErrors \cup {""} : SaveLookupReturn(i, e)
  \/ \E i \in DOMAIN clients : \E e \in StoreErrors \cup {""} : SaveUpdateReturn(i, e)
  \/ \E i \in DOMAIN clients : \E e \in StoreErrors \cup {""} : SaveInsertReturn(i, e)
  \/ \E i \in DOMAIN clients : \E e \in StoreErrors \cup {""} : GetReturn(i, e)
  \/ \E i \in DOMAIN clients : \E e \in StoreErrors \cup {""} : DeleteLookupReturn(i, e)
  \/ \E i \in DOMAIN clients : \E e \in StoreErrors \cup {""} : DeleteReturn(i, e)

SpecStore == InitStore /\ [][NextStore]_vars

\* the record (a@x.io, 1) is absent or present; every client makes one request
InitRace ==
  /\ variant = "accounts" /\ apiKey = TRUE /\ tempDir = {}
  /\ store \in {{}, {Row("a@x.io", 1, "d0")}}
  /\ clients = [i \in 1..MaxClients |-> NewClient(1, RaceRequests)]
  /\ AnalyzeOff /\ ScoreOff /\ NormOff /\ StreamOff /\ SweepOff /\ WireOff

SpecRace == InitRace /\ [][NextStore]_vars

\* a request that uploaded file 1 has sent its response and enters its finally
\* block, with filePath set or still null; the directory holds its file and
\* those of other requests
InitSweep ==
  /\ variant = "accounts" /\ apiKey = TRUE /\ store = {}
  /\ tempDir = 1..MaxFiles
  /\ aged \in SUBSET tempDir
  /\ sweeper = Waiting
  /\ shutdown = Waiting
  /\ pc = "finally"
  /\ req = [NoRequest EXCEPT !.file = ".pdf"]
  /\ nReq = 1
  /\ upload = 1
  /\ filePath \in {1, NoFile}
  /\ documentText = Text("string", 0)
  /\ userData = <<>>
  /\ parsedParties = "empty"
  /\ analysisSource = ""
  /\ responses \in {<<EmailRequired>>, <<ContentShort>>,
                    <<ProcessFailed("Failed to extract text from document")>>}
  /\ providerCalls = 0
  /\ decoded = NoDecoding
  /\ provided = NoOutcome
  /\ ScoreOff /\ NormOff /\ StreamOff /\ StoreOff /\ WireOff

NextSweep ==
  \/ FinallyExists
  \/ FinallyUnlink
  \/ \E f \in 1..MaxFiles : Age(f)
  \/ SweepTick
  \/ SweepStat
  \/ SweepUnlink
  \/ ShutdownSignal
  \/ ShutdownUnlink

SpecSweep == InitSweep /\ [][NextSweep]_vars

InitSteps ==
  /\ variant = "accounts"
  /\ apiKey \in BOOLEAN
  /\ tempDir = {}
  /\ store = {}
  /\ socket = NoSocket
  /\ source = NoSource
  /\ streamsLeft = MaxStreams
  /\ StreamOff /\ ScoreOff /\ NormOff /\ AnalyzeOff /\ StoreOff /\ SweepOff

StreamSteps ==
  \/ \E q \in StreamRequests : StepReceive(q)
  \/ ClientDisconnects
  \/ \E e \in StreamErrors \cup {""} : \E src \in Sources : StepOpenReturn(e, src)
  \/ StepTake
  \/ StepWrite
  \/ StepDone
  \/ StepFail

SpecSteps == InitSteps /\ [][StreamSteps]_vars

\* Either endpoint at work, its external calls returning in the end: the
\* document analysis with its last request to come and no stream request, or
\* the streaming answer with no analysis request to come.
InitLive ==
  \/ /\ variant \in Variants
     /\ apiKey \in BOOLEAN
     /\ tempDir = {}
     /\ store \in StoreInits
     /\ nReq = MaxRequests - 1
     /\ pc = "idle" /\ req = NoRequest /\ upload = NoFile /\ filePath = NoFile
     /\ documentText = Text("string", 0) /\ userData = <<>>
     /\ parsedParties = "empty" /\ analysisSource = "" /\ responses = <<>>
     /\ providerCalls = 0 /\ decoded = NoDecoding /\ provided = NoOutcome
     /\ ScoreOff /\ NormOff /\ StreamOff /\ StoreOff /\ SweepOff /\ WireOff
  \/ /\ variant = "accounts"
     /\ apiKey \in BOOLEAN
     /\ tempDir = {}
     /\ store = {}
     /\ socket = NoSocket
     /\ source = NoSource
     /\ streamsLeft = MaxStreams
     /\ StreamOff /\ ScoreOff /\ NormOff /\ StoreOff /\ SweepOff
     /\ nReq = MaxRequests
     /\ pc = "idle" /\ req = NoRequest /\ upload = NoFile /\ filePath = NoFile
     /\ documentText = Text("string", 0) /\ userData = <<>>
     /\ parsedParties = "empty" /\ analysisSource = "" /\ responses = <<>>
     /\ providerCalls = 0 /\ decoded = NoDecoding /\ provided = NoOutcome

NextLive == Next \/ StreamSteps

\* an awaited call that has been made returns or fails, and the event loop
\* runs what waits for it
Returns ==
  /\ WF_vars(\E failed \in BOOLEAN : AuthReturn(failed))
  /\ WF_vars(\E dec \in Decodings : ExtractReturn(dec))
  /\ WF_vars(\E o \in ProviderOutcomes : ProviderReturn(o))
  /\ WF_vars(\E e \in StreamErrors \cup {""} : \E src \in Sources : StepOpenReturn(e, src))
  /\ WF_vars(StepTake)
  /\ WF_vars(StepWrite)
  /\ WF_vars(StepDone)
  /\ WF_vars(StepFail)

SpecLive == InitLive /\ [][NextLive]_vars /\ Returns


-----------------------------------------------------------------------------
(* Claims about POST /api/analyze-document, under Spec *)

Returned == pc = "returned"

\* documentText holds the request's text: the inline text was taken, or the
\* decoder delivered the file's text
Resolved ==
  \/ analysisSource = "text"
  \/ analysisSource = "file" /\ decoded.ok

FileSupplied == req.file # NoExt
TextSupplied == Truthy(req.text)

\* C1: once the handler has returned, the temp file of a request that
\* uploaded one is absent from the temp directory, whatever the exit path.
C1_TempFileRemoved ==
  (Returned /\ upload # NoFile) => upload \notin tempDir

\* C2: a resolved documentText shorter than 100 or longer than 100000 gets
\* the 400 of its kind and no provider call; a length within [100, 100000]
\* of an otherwise valid request (key configured, parties usable) gets the
\* provider call.
C2_LengthGate ==
  Resolved =>
    /\ (HasLength(documentText) /\ documentText.n < 100) =>
         /\ providerCalls = 0
         /\ Returned => responses = <<ContentShort>>
    /\ (HasLength(documentText) /\ documentText.n > 100000) =>
         /\ providerCalls = 0
         /\ Returned => responses = <<ContentLong>>
    /\ ( /\ HasLength(documentText)
         /\ documentText.n >= 100
         /\ documentText.n <= 100000
         /\ apiKey
         /\ ParseParties(req.parties) # "null"
         /\ pc \in {"provider", "returned"} ) => providerCalls = 1
    /\ ContentShort # ContentLong

\* C2 witness: an over-long text was turned away without a provider call
C2_Witness ==
  /\ Returned /\ Resolved
  /\ documentText.n = MaxLength + 1
  /\ responses = <<ContentLong>>
  /\ providerCalls = 0

\* C2 witness of the other side is reachable too: a text of exactly the
\* minimum length reached the provider
LengthAccepted ==
  /\ Returned /\ Resolved
  /\ documentText.n = MinLength
  /\ providerCalls = 1

\* the score the service computes from the counts an analysis carries
ServiceScore(ra) ==
  calculateRiskScore(OrZero(ra.greenPoints), OrZero(ra.yellowPoints),
                     OrZero(ra.redPoints))

\* C4: in every analysis returned from parseable model output, in either
\* variant, riskAssessment.riskScore is the score computed from the returned
\* counts, not the number the model wrote.
C4_RiskScoreRecomputed ==
  \A i \in 1..Len(responses) :
    LET a == responses[i].analysis IN
    (a.kind = "parsed" /\ a.body.riskAssessment.present) =>
        a.body.riskAssessment.riskScore = ServiceScore(a.body.riskAssessment)

\* the part of C4 that holds: the account-integrated server recomputes
RiskScoreRecomputedWithAccounts ==
  variant = "accounts" => C4_RiskScoreRecomputed

\* every risk entry of a risk block, over all its lists
RiskEntries(ra) ==
  ra.greenRisks.items \o ra.yellowRisks.items \o ra.redRisks.items
    \o ra.risks.items

\* C6: whenever the provider returned text that does not parse as JSON (once
\* its code fences are stripped), the request ends with one 200 response whose
\* analysis is the degraded payload: a single risk entry, of type "Analysis
\* Error", and metadata.error = 'JSON parsing failed'.
C6_ParseFailureDegrades ==
  (Returned /\ provided.ok /\ ~ParsesAsJSON(cleanedText(provided.text))) =>
    /\ Len(responses) = 1
    /\ responses[1].status = 200
    /\ responses[1].analysis.error = "JSON parsing failed"
    /\ RiskEntries(responses[1].analysis.body.riskAssessment) = <<AnalysisError>>

\* the part of C6 that holds: it does so whenever documentText is a string
ParseFailureDegradesForStrings ==
  documentText.k = "string" => C6_ParseFailureDegrades

\* the handler came as far as choosing its source: always in the basic
\* variant, after the email check and the lookup in the other
ReachedSourceResolution ==
  \/ variant = "basic"
  \/ /\ req.email # NoEmail
     /\ pc # "auth"
     /\ responses # <<AuthFailed("store error")>>

\* C7: a request gets past source resolution only when exactly one of
\* (uploaded file, inline text) is supplied; with neither or with both it
\* fails with the 400 for missing input.
C7_ExactlyOneSource ==
  /\ analysisSource # "" => (FileSupplied # TextSupplied)
  /\ (Returned /\ ReachedSourceResolution /\ (FileSupplied = TextSupplied)) =>
        responses = <<NoInput>>

\* the part of C7 that holds: a source is taken only when one is supplied,
\* and a request with neither is never analysed
SourceOnlyWhenSupplied ==
  /\ analysisSource # "" => (FileSupplied \/ TextSupplied)
  /\ (Returned /\ ~FileSupplied /\ ~TextSupplied) => providerCalls = 0
  /\ (Returned /\ ReachedSourceResolution /\ ~FileSupplied /\ ~TextSupplied) =>
        responses = <<NoInput>>

-----------------------------------------------------------------------------
(* Claims about the model-output handling, under SpecNorm *)

\* C3: for model output that parses as a JSON object, whichever of
\* legalReferences, vagueTerms, keyTerms, redFlags, suggestedQuestions it
\* omits, the returned analysis carries every one of them as a list.
C3_ArrayFieldsFilled ==
  ( /\ nzPc = "done"
    /\ nzIn.variant = "accounts"
    /\ ParsesAsJSON(cleanedText(nzIn.out))
    /\ \A f \in ArrayFields : nzIn.out.body[f].k \in {"absent", "array"} ) =>
      /\ ~nzOut.threw
      /\ \A f \in ArrayFields : IsArray(nzOut.analysis.body[f])

\* the part of C3 that holds: the two fields the code does fill
TwoFieldsFilled ==
  (nzPc = "done" /\ nzIn.variant = "accounts" /\ nzOut.analysis.kind = "parsed") =>
      /\ IsArray(nzOut.analysis.body.legalReferences)
      /\ IsArray(nzOut.analysis.body.suggestedQuestions)

-----------------------------------------------------------------------------
(* Claims about POST /api/ask-question-stream, under SpecStream *)

\* one chunk event per increment, in the provider's order
ChunkEvents(incs) == [i \in 1..Len(incs) |-> Event("chunk", incs[i])]

\* the texts of a sequence of increments, concatenated in order
RECURSIVE Concat(_)
Concat(incs) == IF incs = <<>> THEN "" ELSE incs[1] \o Concat(Tail(incs))

\* C8: when the provider stream completes without error, the channel carries
\* one chunk event per increment, in order, then exactly one done event whose
\* fullText is the concatenation of the chunk texts, and nothing after it.
C8_ChunksThenDone ==
  /\ spc = "iter" => (events = ChunkEvents(produced) /\ ~ended)
  /\ (spc = "returned" /\ sheaders /\ serror = "") =>
        /\ events = ChunkEvents(produced) \o <<Event("done", Concat(produced))>>
        /\ ended

C8_Witness ==
  /\ spc = "returned" /\ serror = ""
  /\ Len(produced) >= 2
  /\ produced[1] # produced[2]
  /\ events[Len(events)].type = "done"

\* C9: once streaming has started, a provider failure (before the first
\* increment or between increments) puts exactly one error event on the
\* channel, after the chunks already written, and ends the stream; no done
\* event is written and no JSON error response is sent.
C9_FailureInBand ==
  (spc = "returned" /\ serror # "") =>
      /\ sheaders
      /\ events = ChunkEvents(produced) \o <<Event("error", serror)>>
      /\ ended
      /\ jsonResp = <<>>
      /\ \A i \in 1..Len(events) : events[i].type # "done"

C9_Witness ==
  /\ spc = "returned" /\ serror # ""
  /\ Len(produced) >= 1
  /\ events[Len(events)].type = "error"

\* C10: a request without a question or without an analysis context gets a
\* 400 JSON response before any streaming: no event-stream header, no event,
\* no provider call.
C10_RejectedBeforeStreaming ==
  (spc # "idle" /\ (~sreq.question \/ ~sreq.context)) =>
      /\ spc = "returned"
      /\ Len(jsonResp) = 1
      /\ jsonResp[1].status = 400
      /\ ~sheaders
      /\ events = <<>>
      /\ ~ended
      /\ streamCalls = 0

C10_Witness ==
  /\ spc = "returned"
  /\ sreq.question /\ ~sreq.context
  /\ jsonResp = <<JsonError(400, "Analysis context is required")>>

-----------------------------------------------------------------------------
(* Claims about the user-data handlers run one after another, under SpecStore *)

\* the rows of an email
RowsOf(rows, email) == {r \in rows : r.email = email}

\* client c has made the same valid save twice in a row and no store call of
\* either failed
SavedTwice(c) ==
  /\ c.pc = "returned"
  /\ c.req.op = "save"
  /\ c.req \notin {StoreReq("save", "", 1, "", "d1"),
                   StoreReq("save", "a@x.io", NoSerial, "", "d1"),
                   StoreReq("save", "a@x.io", 1, "", "")}
  /\ c.prev.req = c.req
  /\ c.prev.failure = "" /\ c.failure = ""

\* C11: after two consecutive saves with the same (email, serial, data),
\* whatever the table held before, exactly one record has the key and its data
\* is the data saved; both calls succeed, the second reports "update", and the
\* first reports "insert" iff the key had no record before it.
C11_SaveTwiceIsUpdate ==
  \A i \in DOMAIN clients :
    LET c == clients[i] IN
    SavedTwice(c) =>
      /\ Matching(store, c.req.email, c.req.serial)
           = {Row(c.req.email, c.req.serial, c.req.data)}
      /\ c.prev.resp.status = 200
      /\ c.resp.status = 200
      /\ c.resp.operation = "update"
      /\ c.resp.data = <<Row(c.req.email, c.req.serial, c.req.data)>>
      /\ c.prev.resp.operation \in {"insert", "update"}
      /\ (c.prev.resp.operation = "insert")
           <=> (Matching(c.prev.before, c.req.email, c.req.serial) = {})

\* C11 witness: the first save inserted, the second updated; and a first save
\* that replaced other data
C11_Witness ==
  \E i \in DOMAIN clients :
    /\ SavedTwice(clients[i])
    /\ clients[i].prev.resp.operation = "insert"
    /\ clients[i].resp.operation = "update"
    /\ Cardinality(store) >= 2

\* C12: a delete for a key without a record answers 404 and leaves the table
\* as it was; for a key with a record (and no store error) it removes that
\* record and no other, and confirms with the key.
C12_DeleteExactlyOne ==
  \A i \in DOMAIN clients :
    LET c == clients[i]
        m == Matching(c.before, c.req.email, c.serialNumber)
    IN  (c.pc = "returned" /\ c.req.op = "delete" /\ c.serialNumber # NoSerial) =>
          /\ m = {} => (c.resp.status = 404 /\ store = c.before)
          /\ (m # {} /\ c.failure = "") =>
               /\ Cardinality(m) = 1
               /\ store = c.before \ m
               /\ c.resp.status = 200
               /\ c.resp.deleted = Key(c.req.email, c.serialNumber)
          /\ (m # {} /\ c.failure # "") => store = c.before

\* C12 witness: a record deleted from a table that holds another record of
\* the same email and one of another email
C12_Witness ==
  \E i \in DOMAIN clients :
    /\ clients[i].pc = "returned"
    /\ clients[i].req.op = "delete"
    /\ clients[i].resp.status = 200
    /\ RowsOf(store, clients[i].req.email) # {}
    /\ store \ RowsOf(store, clients[i].req.email) # {}

\* C13: a get leaves the table as it was; it answers 404 when the email has
\* no record, and otherwise returns the email's records, all of them and no
\* other, in ascending order of serial, with their number as count.
C13_GetReturnsAllAscending ==
  \A i \in DOMAIN clients :
    LET c == clients[i]
        mine == RowsOf(c.before, c.req.email)
        data == c.resp.data
    IN  (c.pc = "returned" /\ c.req.op = "get") =>
          /\ store = c.before
          /\ (c.failure = "" /\ mine = {}) => c.resp.status = 404
          /\ (c.failure = "" /\ mine # {}) =>
               /\ c.resp.status = 200
               /\ {data[k] : k \in 1..Len(data)} = mine
               /\ Len(data) = Cardinality(mine)
               /\ c.resp.count = Cardinality(mine)
               /\ \A j, k \in 1..Len(data) : j < k => data[j].serial < data[k].serial

\* C13 witness: two records returned
C13_Witness ==
  \E i \in DOMAIN clients :
    /\ clients[i].pc = "returned"
    /\ clients[i].req.op = "get"
    /\ clients[i].resp.count = 2
    /\ store \ RowsOf(store, clients[i].req.email) # {}

\* no store call issued twice by the handler of client c
NoCallRepeated(c) ==
  \A j, k \in 1..Len(c.calls) : j # k => c.calls[j] # c.calls[k]

\* C14: when a store call of a save, a get or a delete (its lookup included)
\* comes back with a store error, the handler answers 500 with the store's
\* message and does not issue the call again.
C14_StoreErrorIs500 ==
  \A i \in DOMAIN clients :
    LET c == clients[i] IN
    (c.pc = "returned" /\ c.failure # "") =>
      /\ c.resp.status = 500
      /\ c.resp.message = c.failure
      /\ NoCallRepeated(c)

\* the part of C14 that holds: every store call but the lookup of the delete
StoreErrorIs500ButInDeleteLookup ==
  \A i \in DOMAIN clients :
    LET c == clients[i] IN
    (c.pc = "returned" /\ c.failure # "" /\ c.calls # <<"delLookup">>) =>
      /\ c.resp.status = 500
      /\ c.resp.message = c.failure
      /\ NoCallRepeated(c)

-----------------------------------------------------------------------------
(* Claims about concurrent user-data requests, under SpecRace *)

\* the clients that have sent a request
Sent == {i \in DOMAIN clients : clients[i].req # NoStoreReq}

\* the clients whose save was answered with success: true
Saved(operation) ==
  {i \in Sent : /\ clients[i].req.op = "save"
                /\ clients[i].resp.status = 200
                /\ clients[i].resp.operation = operation}

\* every request so far is a save of the record (a@x.io, 1), which was absent
\* when the first of them arrived
OnlySavesOfNewRecord ==
  \A i \in Sent :
    /\ clients[i].req.op = "save"
    /\ clients[i].req.email = "a@x.io" /\ clients[i].req.serial = 1
    /\ \E j \in Sent : Matching(clients[j].before, "a@x.io", 1) = {}

\* C19: however concurrent saves of one key that had no record interleave, the
\* table never holds more than one record of the key, and of the saves that
\* succeeded exactly one reports "insert", every other "update".
C19_OneInsertAmongConcurrentSaves ==
  OnlySavesOfNewRecord =>
    /\ Cardinality(Matching(store, "a@x.io", 1)) <= 1
    /\ Cardinality(Saved("insert")) <= 1
    /\ (Saved("insert") \cup Saved("update") # {}) => Cardinality(Saved("insert")) = 1

\* C19 witness: both saves passed the existence check before either wrote;
\* one inserted, the other was refused by the table
C19_Witness ==
  /\ OnlySavesOfNewRecord
  /\ Cardinality(Sent) >= 2
  /\ \A i \in Sent : clients[i].pc = "returned" /\ clients[i].existingData = <<>>
  /\ Cardinality(Saved("insert")) = 1

\* a second case of C19: the second save arrived after the first had written
SecondSaveUpdates ==
  /\ OnlySavesOfNewRecord
  /\ Cardinality(Saved("insert")) = 1
  /\ Saved("update") # {}

\* C20: a save answered with success: true carries the stored record of its
\* key, holding the data submitted, also when a delete of the key ran between
\* its existence check and its write.
C20_ReportedWriteTookEffect ==
  \A i \in Sent :
    LET c == clients[i] IN
    (c.pc = "returned" /\ c.req.op = "save" /\ c.resp.status = 200) =>
      c.resp.data = <<Row(c.req.email, c.req.serial, c.req.data)>>

\* the part of C20 that holds: when no delete runs beside the saves
ReportedWriteTookEffectWithoutDelete ==
  (\A i \in Sent : clients[i].req.op # "delete") => C20_ReportedWriteTookEffect

-----------------------------------------------------------------------------
(* Claims about the accounts, the parties and the failures of                *)
(* POST /api/analyze-document, under Spec                                    *)

\* the request was answered with an analysis
Analysed == Returned /\ Len(responses) = 1 /\ responses[1].status = 200

\* C15: in the account-integrated server, an analysis comes with userInfo
\* whose isAuthenticated says whether a record is stored for the email and
\* whose totalRecords is the number of records stored for it; an email without
\* a record is analysed all the same.
C15_UserInfoCountsRecords ==
  (Analysed /\ variant = "accounts") =>
    LET n == Cardinality(RowsOf(store, req.email))
        u == responses[1].userInfo
    IN  /\ u.present
        /\ u.isAuthenticated <=> (n > 0)
        /\ u.totalRecords = n

\* the part of C15 that holds: isAuthenticated, and a count that is 0 or 1
UserInfoRecognisesEmail ==
  (Analysed /\ variant = "accounts") =>
    LET n == Cardinality(RowsOf(store, req.email))
        u == responses[1].userInfo
    IN  /\ u.present
        /\ u.isAuthenticated <=> (n > 0)
        /\ u.totalRecords = IF n > 0 THEN 1 ELSE 0

\* an email without a record is analysed
UnknownEmailAnalysed ==
  Analysed /\ variant = "accounts" /\ RowsOf(store, req.email) = {}

\* the request is valid but for its parties: a string of a length within the
\* limits, the key configured, and a provider call, if one was made, that
\* returned text
ValidButForParties ==
  /\ Returned /\ Resolved
  /\ documentText.k = "string"
  /\ ~TooShort(documentText) /\ ~TooLong(documentText)
  /\ apiKey
  /\ providerCalls = 1 => provided.ok

\* C16: whatever the parties field of an otherwise valid request holds, the
\* request is answered 200; with the field absent or a string that does not
\* parse, metadata.parties of the analysis is {}.
C16_PartiesNeverAbort ==
  ValidButForParties =>
    /\ Analysed
    /\ req.parties \in {"absent", "notJson"} =>
         responses[1].analysis.parties = "empty"

\* the part of C16 that holds: every parties field but the string "null"
PartiesNeverAbortUnlessNull ==
  req.parties # "jsonNull" => C16_PartiesNeverAbort

\* C17: a request makes at most one provider call; when the call fails the
\* request is answered 500 with the provider's message and no second call is
\* made.
C17_OneProviderCallNoRetry ==
  /\ providerCalls <= 1
  /\ (pc # "provider" /\ provided.error # "") =>
       /\ Returned
       /\ providerCalls = 1
       /\ responses =
            <<ProcessFailed("Failed to analyze document with AI: " \o provided.error)>>

\* C17 witness: the provider call of a file upload failed
C17_Witness ==
  /\ Returned
  /\ provided.error = "fetch failed"
  /\ analysisSource = "file"
  /\ responses[1].status = 500
  /\ providerCalls = 1

\* C18: whatever error the decoder raises, the request is answered 500 with
\* the one message 'Failed to extract text from document', the decoder's own
\* message is not in the response, and no provider call is made.
C18_ExtractionFailureIsGeneric ==
  (pc # "extract" /\ decoded.error # "") =>
    /\ Returned
    /\ responses = <<ProcessFailed("Failed to extract text from document")>>
    /\ responses[1].message \notin DecoderErrors
    /\ providerCalls = 0

\* C18 witness: a decoder error answered with the generic failure
C18_Witness ==
  /\ Returned
  /\ decoded.error = "bad XRef entry"
  /\ responses[1].status = 500
  /\ responses[1].message = "Failed to extract text from document"

-----------------------------------------------------------------------------
(* Claims about the temp directory's cleaners, under SpecSweep *)

\* a cleaner that is through has been at every file of its listing
Through(c) == c.pc = "done" => c.at = Len(c.listing) + 1

\* no error has left a cleaner, and one that is through has dealt with every
\* file it listed: the sweep kept it as too young or it is gone, the shutdown
\* cleanup left none
NoCleanerFailed ==
  /\ pc # "threw"
  /\ ~sweeper.raised /\ ~shutdown.raised
  /\ Through(sweeper) /\ Through(shutdown)
  /\ sweeper.pc = "done" =>
       \A k \in 1..Len(sweeper.listing) :
         sweeper.listing[k] \in sweeper.kept \/ sweeper.listing[k] \notin tempDir
  /\ shutdown.pc = "done" =>
       \A k \in 1..Len(shutdown.listing) : shutdown.listing[k] \notin tempDir

\* C21: however the finalizer, the sweep and the shutdown cleanup interleave,
\* meeting a file that another has removed raises no error out of any of
\* them, leaves the request's response as it was sent, and does not keep the
\* sweep or the cleanup from the files that remain.
C21_DeleteOfGoneFileIsNoOp ==
  /\ []NoCleanerFailed
  /\ [][responses' = responses]_vars

\* C21 witness: the finalizer is about to unlink a file that is gone, and the
\* sweep has met a file that was gone and removed a later one
C21_Witness ==
  /\ pc = "unlinking" /\ filePath \notin tempDir
  /\ sweeper.pc = "done"
  /\ \E f \in sweeper.logged : \E g \in sweeper.removed : f < g

-----------------------------------------------------------------------------
(* Claims about the streaming answer taken step by step, under SpecSteps    *)
(* and SpecLive                                                             *)

\* the number of chunk events on the channel
ChunksWritten ==
  Cardinality({k \in 1..Len(events) : events[k].type = "chunk"})

\* the chunk events are those of the increments taken, short of the latest
\* one exactly while it is being written
WrittenUpToLatest ==
  /\ spc = "write" => ChunksWritten = Len(produced) - 1
  /\ spc # "write" => ChunksWritten = Len(produced)
  /\ \A k \in 1..ChunksWritten : events[k] = Event("chunk", produced[k])

\* C22: each increment is written as a chunk event before the next one is
\* taken from the provider: the chunk events written are as many as the
\* increments taken, or one fewer while the latest is being written, and an
\* increment is taken only when all before it are written.
C22_WrittenBeforeNextTaken ==
  /\ []WrittenUpToLatest
  /\ [][Len(produced') > Len(produced) => ChunksWritten = Len(produced)]_vars

\* C22 witness: a second increment has been taken and is being written, the
\* first one is on the channel
C22_Witness ==
  /\ spc = "write"
  /\ Len(produced) = 2
  /\ events = <<Event("chunk", produced[1])>>

\* the client went away while an answer was being streamed
GoneMidStream == ~socket.open /\ sheaders

\* with the client gone the stream is consumed to its end: every increment
\* taken and written, then the done event and the end of the response
ConsumedToTheEnd ==
  /\ (GoneMidStream /\ spc \in {"open", "iter", "write"}) => ~ended
  /\ (GoneMidStream /\ spc = "returned" /\ serror = "") =>
        /\ produced = source.incs
        /\ events = ChunkEvents(source.incs) \o
                      <<Event("done", Concat(source.incs))>>
        /\ ended
        /\ streamCalls = 1

\* C23: when the client disconnects in the middle of a streaming answer, the
\* provider call is not cancelled: the handler goes on taking every remaining
\* increment and writing its chunk event until the stream completes, then
\* writes the done event and ends the response.
C23_DisconnectDoesNotCancel ==
  /\ []ConsumedToTheEnd
  /\ (GoneMidStream /\ spc \in {"open", "iter", "write"}) ~> (spc = "returned" /\ ended)

\* C23 witness: the client left after the first chunk, two more increments
\* were taken and written after that, and the answer ended with done
C23_Witness ==
  /\ ~socket.open
  /\ spc = "returned"
  /\ Len(socket.received) = 1
  /\ Len(produced) = 3
  /\ events[Len(events)].type = "done"

\* what ends an event stream
Terminal(ev) == ev.type \in {"done", "error"}

\* one terminal response at most, and exactly one when the handler is done
OneTerminalResponse ==
  /\ Len(responses) <= 1
  /\ pc \in {"auth", "extract", "provider"} => responses = <<>>
  /\ pc = "returned" => Len(responses) = 1
  /\ Len(jsonResp) <= 1
  /\ jsonResp # <<>> => (events = <<>> /\ ~ended)
  /\ ended => spc = "returned"
  /\ \A k \in 1..Len(events) : Terminal(events[k]) => (k = Len(events) /\ ended)
  /\ spc = "returned" =>
       \/ jsonResp # <<>>
       \/ ended /\ events # <<>> /\ Terminal(events[Len(events)])

\* nothing is sent for a request that has its terminal response
NothingAfterTheEnd ==
  /\ (ended /\ ended') => (events' = events /\ jsonResp' = jsonResp)
  /\ (pc = "returned" /\ pc' = "returned") => responses' = responses

\* C24: every analyze-document and ask-question-stream request whose external
\* calls return or fail in the end gets exactly one terminal response: no
\* second JSON response, no event after the end of the stream, no request
\* left without a response.
C24_ExactlyOneTerminalResponse ==
  /\ []OneTerminalResponse
  /\ [][NothingAfterTheEnd]_vars
  /\ (pc \in {"auth", "extract", "provider"}) ~> (pc = "returned")
  /\ (spc \in {"open", "iter", "write"}) ~> (spc = "returned")

\* C24 witness: the provider was called for an analysis and the request has
\* its one response
C24_Witness ==
  /\ pc = "returned"
  /\ providerCalls = 1
  /\ Len(responses) = 1

====
